---------------------------- MODULE Spec2Model ----------------------------
(***************************************************************************)
(* Model of the run handler server (cmd/server/main.go): the batch         *)
(* encoder, the byte-range reference codec, the concurrent write path      *)
(* (createRunsHandler) and the concurrent streaming read path              *)
(* (getRunHandler, openS3RangePipe).                                       *)
(*                                                                         *)
(* Byte strings are TLA+ strings: Len is the byte length, \o appends and   *)
(* SubSeq slices, so offsets are measured on the bytes themselves.         *)
(* A uuid.UUID value is modelled by its canonical text; identifier texts   *)
(* are shortened ("a", "g1") but parsing and printing keep their shape:    *)
(* Parse accepts more than one spelling of a value, String prints one.     *)
(***************************************************************************)
EXTENDS Integers, Sequences, FiniteSets, TLC

(***************************************************************************)
(* Bounds of the model.                                                    *)
(***************************************************************************)
\* Largest number of runs in one submitted batch.
MaxBatch == 2
\* Largest number of write requests served in one behaviour.
MaxWrites == 1
\* Largest number of bytes a range read delivers before it fails mid-stream.
MaxPartial == 1
\* Largest number of write requests the concurrent handlers serve in one behaviour.
MaxPoolWrites == 3
\* Largest number of batch buffers allocated in one behaviour.
MaxBufs == 2

(***************************************************************************)
(* Strings.                                                                *)
(***************************************************************************)
Min(a, b) == IF a < b THEN a ELSE b

\* s[from:] of Go, from counted from 0.
StrFrom(s, from) == SubSeq(s, from + 1, Len(s))

\* s[:to] of Go.
StrTo(s, to) == SubSeq(s, 1, to)

\* strings.HasPrefix.
HasPrefix(s, p) == Len(s) >= Len(p) /\ SubSeq(s, 1, Len(p)) = p

\* strings.IndexByte: the 0-based index of the first c in s, or -1.
IndexByte(s, c) ==
    LET hits == {i \in 1..Len(s) : SubSeq(s, i, i) = c}
    IN  IF hits = {} THEN -1
        ELSE (CHOOSE i \in hits : \A j \in hits : i <= j) - 1

DigitChars == {"0", "1", "2", "3", "4", "5", "6", "7", "8", "9"}

DigitVal(c) == CHOOSE d \in 0..9 : ToString(d) = c

RECURSIVE DigitsVal(_, _)
\* The value of a string of decimal digits, acc the value read so far.
DigitsVal(s, acc) ==
    IF s = "" THEN acc
    ELSE DigitsVal(StrFrom(s, 1), 10 * acc + DigitVal(SubSeq(s, 1, 1)))

\* Atoi that reads the leading digits and ignores what follows them.
AtoiLeadingDigits(s) ==
    LET lead == {k \in 0..Len(s) : \A i \in 1..k : SubSeq(s, i, i) \in DigitChars}
        n    == CHOOSE k \in lead : \A j \in lead : j <= k
    IN  IF n = 0 THEN [ok |-> FALSE, val |-> 0]
        ELSE [ok |-> TRUE, val |-> DigitsVal(StrTo(s, n), 0)]

\* strconv.Atoi: an optional sign then one or more decimal digits.
Atoi(s) ==
    LET signed == s # "" /\ SubSeq(s, 1, 1) \in {"+", "-"}
        digits == IF signed THEN StrFrom(s, 1) ELSE s
        ok     == digits # "" /\ \A i \in 1..Len(digits) : SubSeq(digits, i, i) \in DigitChars
    IN  IF ~ok THEN [ok |-> FALSE, val |-> 0]
        ELSE [ok |-> TRUE,
              val |-> IF signed /\ SubSeq(s, 1, 1) = "-"
                      THEN 0 - DigitsVal(digits, 0) ELSE DigitsVal(digits, 0)]

\* fmt's %d of an int.
Itoa(n) == ToString(n)

\* strconv.AppendQuote and json.Marshal of a string without special characters.
Quote(s) == "\"" \o s \o "\""


(***************************************************************************)
(* Identifiers (github.com/google/uuid).                                   *)
(***************************************************************************)
\* Canonical texts of the identifiers a caller may supply.
CallerUUIDs == {"a", "b"}

\* The n-th identifier drawn by uuid.New: fresh, never a caller's.
GenUUID(n) == "g" \o ToString(n)

\* uuid.New is called once per request for the batch and at most once per run;
\* one earlier request may have stored a run before the first state.
GenUUIDs == {GenUUID(n) : n \in 1..((MaxWrites + 1) * (MaxBatch + 1))}

\* Another spelling uuid.Parse accepts for the same value (upper-case hex).
UpperSpelling(u) == IF u = "a" THEN "A" ELSE IF u = "b" THEN "B" ELSE u

\* uuidParse that accepts the canonical spelling only.
uuidParseCanonicalOnly(s) ==
    IF s \in CallerUUIDs \cup GenUUIDs THEN [ok |-> TRUE, id |-> s]
    ELSE [ok |-> FALSE, id |-> ""]

\* uuid.Parse: the value of an accepted spelling, ok = FALSE for anything else.
uuidParse(s) ==
    IF s \in CallerUUIDs \cup GenUUIDs THEN [ok |-> TRUE, id |-> s]
    ELSE IF \E u \in CallerUUIDs : UpperSpelling(u) = s
         THEN [ok |-> TRUE, id |-> CHOOSE u \in CallerUUIDs : UpperSpelling(u) = s]
         ELSE [ok |-> FALSE, id |-> ""]

\* UUID.String: the canonical text.
uuidString(u) == u

(***************************************************************************)
(* Reference codec.                                                        *)
(***************************************************************************)
\* cfg.S3BucketName.
S3BucketName == "runs"

\* fmt.Sprintf("batches/%s.json", batchID).
ObjectKey(batchID) == "batches/" \o batchID \o ".json"

\* S3Ref with the offsets joined by '-' as in a Range header.
S3RefDash(bucket, key, start, end, fieldName) ==
    "s3://" \o bucket \o "/" \o key \o "#" \o Itoa(start) \o "-" \o Itoa(end)
            \o "/" \o fieldName

\* fmt.Sprintf("s3://%s/%s#%d:%d/<field>", bucket, key, start, end).
S3Ref(bucket, key, start, end, fieldName) ==
    "s3://" \o bucket \o "/" \o key \o "#" \o Itoa(start) \o ":" \o Itoa(end)
            \o "/" \o fieldName

\* strings.SplitN(offsets, ":", 2).
SplitColon(offsets) ==
    LET c == IndexByte(offsets, ":")
    IN  IF c = -1 THEN <<offsets>>
        ELSE <<StrTo(offsets, c), StrFrom(offsets, c + 1)>>

NoRef == [bucket |-> "", key |-> "", start |-> 0, end |-> 0, ok |-> FALSE]

\* parseS3Ref: refs like s3://bucket/key#start:end/field.
parseS3Ref(ref) ==
    IF ref = "" \/ ~HasPrefix(ref, "s3://") THEN NoRef
    ELSE
      LET rest  == StrFrom(ref, 5)
          slash == IndexByte(rest, "/")
      IN  IF slash = -1 THEN NoRef
          ELSE
            LET bucket     == StrTo(rest, slash)
                keyAndFrag == StrFrom(rest, slash + 1)
                hash       == IndexByte(keyAndFrag, "#")
                unparsed   == [bucket |-> bucket,
                               key |-> IF hash = -1 THEN keyAndFrag
                                       ELSE StrTo(keyAndFrag, hash),
                               start |-> 0, end |-> 0, ok |-> FALSE]
            IN  IF hash = -1 THEN unparsed
                ELSE
                  LET frag   == StrFrom(keyAndFrag, hash + 1)
                      slash2 == IndexByte(frag, "/")
                  IN  IF slash2 = -1 THEN unparsed
                      ELSE
                        LET parts == SplitColon(StrTo(frag, slash2))
                        IN  IF Len(parts) # 2 THEN unparsed
                            ELSE
                              LET st == Atoi(parts[1])
                                  en == Atoi(parts[2])
                              IN  IF st.ok /\ en.ok
                                  THEN [unparsed EXCEPT !.start = st.val,
                                                        !.end = en.val,
                                                        !.ok = TRUE]
                                  ELSE unparsed

(***************************************************************************)
(* Batch encoder (createRunsHandler, the loop over the runs).              *)
(***************************************************************************)
\* A nil *string and a pointer to s.
NilID == <<>>
PtrID(s) == <<s>>

\* PayloadBytes that writes null for an empty RawMessage.
PayloadBytesNull(raw) == IF Len(raw) = 0 THEN "null" ELSE raw

\* The bytes written for one payload field: {} for an empty RawMessage.
PayloadBytes(raw) == IF Len(raw) = 0 THEN "{}" ELSE raw

\* FieldSpan with the end taken at the last byte of the value, not past it.
FieldSpanInclusiveEnd(before, value) ==
    [start |-> Len(before), end |-> Len(before \o value) - 1]

\* FieldSpan measured against the buffer as it was at the start of the batch.
FieldSpanFromBatchStart(before, value) ==
    [start |-> Len("["), end |-> Len("[") + Len(value)]

\* The half-open interval of a field: the buffer length before and after its value.
FieldSpan(before, value) == [start |-> Len(before), end |-> Len(before \o value)]

\* One iteration of the loop for a run that passed validation: the buffer after
\* the run and its runOffsets.
EncodeRun(buf, i, in, id, traceID, key) ==
    LET b1 == (IF i > 0 THEN buf \o "," ELSE buf)
                \o "{\"id\":\"" \o uuidString(id)
                \o "\",\"trace_id\":\"" \o uuidString(traceID)
                \o "\",\"name\":" \o Quote(in.Name)
        b2 == b1 \o ",\"inputs\":"
        si == FieldSpan(b2, PayloadBytes(in.Inputs))
        b3 == b2 \o PayloadBytes(in.Inputs)
        b4 == b3 \o ",\"outputs\":"
        so == FieldSpan(b4, PayloadBytes(in.Outputs))
        b5 == b4 \o PayloadBytes(in.Outputs)
        b6 == b5 \o ",\"metadata\":"
        sm == FieldSpan(b6, PayloadBytes(in.Metadata))
        b7 == b6 \o PayloadBytes(in.Metadata)
    IN  [buf  |-> b7 \o "}",
         off  |-> [id |-> id, traceID |-> traceID, name |-> in.Name,
                   inputsRef   |-> S3Ref(S3BucketName, key, si.start, si.end, "inputs"),
                   outputsRef  |-> S3Ref(S3BucketName, key, so.start, so.end, "outputs"),
                   metadataRef |-> S3Ref(S3BucketName, key, sm.start, sm.end, "metadata")]]

\* The client errors of the loop, naming the index of the rejected run.
InvalidIDMessage(i) == "invalid id at index " \o Itoa(i)

\* InvalidTraceIDMessage counting the runs from 1.
InvalidTraceIDMessageOneBased(i) == "invalid trace_id at index " \o Itoa(i + 1)

InvalidTraceIDMessage(i) == "invalid trace_id at index " \o Itoa(i)

RECURSIVE EncodeRuns(_, _, _, _, _, _)
\* The loop from run i (0-based) on: err is "" when every run was encoded, else
\* the message of the first rejected run; seq counts the uuid.New calls so far.
EncodeRuns(runs, i, buf, offs, seq, key) ==
    IF i >= Len(runs)
    THEN [err |-> "", buf |-> buf \o "]", offs |-> offs, seq |-> seq]
    ELSE
      LET in       == runs[i + 1]
          supplied == in.ID # NilID /\ in.ID[1] # ""
          pid      == IF supplied THEN uuidParse(in.ID[1])
                      ELSE [ok |-> TRUE, id |-> GenUUID(seq + 1)]
          seq1     == IF supplied THEN seq ELSE seq + 1
          ptrace   == uuidParse(in.TraceID)
      IN  IF ~pid.ok
          THEN [err |-> InvalidIDMessage(i),
                buf |-> buf, offs |-> offs, seq |-> seq1]
          ELSE IF ~ptrace.ok
          THEN [err |-> InvalidTraceIDMessage(i),
                buf |-> buf, offs |-> offs, seq |-> seq1]
          ELSE LET e == EncodeRun(buf, i, in, pid.id, ptrace.id, key)
               IN  EncodeRuns(runs, i + 1, e.buf, Append(offs, e.off), seq1, key)

(***************************************************************************)
(* State.                                                                  *)
(***************************************************************************)
VARIABLES
    db,        \* the runs table: id -> row (id is the primary key)
    s3,        \* the bucket: object key -> bytes
    uuidSeq,   \* uuid.New calls made so far
    nWrites,   \* write requests accepted so far
    \* one createRunsHandler call
    wpc,       \* "idle", or "wait" while the handler reads errCh
    wreq,      \* the request body of the current (or last) call
    wkey,      \* objectKey
    wbuf,      \* buf.Bytes() after encoding
    woffs,     \* offs
    s3pc,      \* upload goroutine: "none", "put", "done"
    dbpc,      \* insert goroutine: "none", "acquire", "copy", "ids", "done"
    dbids,     \* what the insert goroutine sends on runIDsCh
    errCh,     \* chan error, capacity 2
    runIDsCh,  \* chan []string, capacity 1
    hrecv,     \* i of the handler's receive loop
    s3Err,
    dbErr,
    wresp,     \* the response of the last call
    wcalls,    \* store calls issued by the current (or last) call
    wpre,      \* db and s3 when the current (or last) call began
    \* one getRunHandler call
    rpc,       \* "idle", or "stream" while the handler writes the 200 response
    rreq,      \* the id path parameter of the current (or last) call
    rrow,      \* the scanned row
    streams,   \* per field: the stream, its pipe and its fetch goroutine
    hfield,    \* the field the handler is at (1 inputs, 2 outputs, 3 metadata)
    hphase,    \* "key" before writeField writes the key, "copy" inside io.CopyBuffer
    w,         \* the chunks written to the response body, one per Write
    rresp,     \* status (and error body) of the current (or last) call
    rcalls,    \* store calls issued by the current (or last) call, and which failed
    tampered,  \* the stored reference changed outside the program, if any
    \* concurrent createRunsHandler calls sharing bufferPool
    pool,      \* the buffers bufferPool holds
    bufs,      \* every bytes.Buffer allocated: its backing array and its length
    preq,      \* per handler goroutine: the locals of its current (or last) call
    pserved    \* calls started so far

svars == <<db, s3, uuidSeq, nWrites>>
wvars == <<wpc, wreq, wkey, wbuf, woffs, s3pc, dbpc, dbids, errCh, runIDsCh,
           hrecv, s3Err, dbErr, wresp, wcalls, wpre>>
rvars == <<rpc, rreq, rrow, streams, hfield, hphase, w, rresp, rcalls>>
pvars == <<pool, bufs, preq, pserved>>
vars == <<svars, wvars, rvars, tampered, pvars>>

\* A nil error, and the descriptions of the errors the stores return.
NilErr == "<nil>"
S3PutError == "put object: service unavailable"
DBAcquireError == "acquire: pool exhausted"
DBCopyError == "copy: statement failed"

NoResp == [status |-> 0]
NoCalls == [put |-> 0, insert |-> 0]

\* CopyRows with the run's id written to the trace_id column as well.
CopyRowsIDAsTrace(offs) ==
    [i \in 1..Len(offs) |->
        [id |-> offs[i].id, trace_id |-> offs[i].id, name |-> offs[i].name,
         inputs |-> offs[i].inputsRef, outputs |-> offs[i].outputsRef,
         metadata |-> offs[i].metadataRef]]

\* The rows CopyFrom receives, in the order of offs.
CopyRows(offs) ==
    [i \in 1..Len(offs) |->
        [id |-> offs[i].id, trace_id |-> offs[i].traceID, name |-> offs[i].name,
         inputs |-> offs[i].inputsRef, outputs |-> offs[i].outputsRef,
         metadata |-> offs[i].metadataRef]]

\* RunIDs in the reverse of the order of offs.
RunIDsReversed(offs) ==
    [i \in 1..Len(offs) |-> uuidString(offs[Len(offs) + 1 - i].id)]

\* runIDs: ro.id.String() for each of offs, in order.
RunIDs(offs) == [i \in 1..Len(offs) |-> uuidString(offs[i].id)]

\* KeyConflict that compares the rows of the COPY with one another only.
KeyConflictWithinBatch(rows) ==
    \E i, j \in 1..Len(rows) : i # j /\ rows[i].id = rows[j].id

\* The primary key rejects the COPY when an id is already stored or repeated.
KeyConflict(rows) ==
    \/ \E i \in 1..Len(rows) : rows[i].id \in DOMAIN db
    \/ \E i, j \in 1..Len(rows) : i # j /\ rows[i].id = rows[j].id

\* The table after a COPY of rows without key conflict.
InsertRows(rows) ==
    [id \in DOMAIN db \cup {rows[i].id : i \in 1..Len(rows)} |->
        IF id \in DOMAIN db THEN db[id]
        ELSE rows[CHOOSE i \in 1..Len(rows) : rows[i].id = id]]

\* The bucket after PutObject(key, body).
PutObject(key, body) ==
    [k \in DOMAIN s3 \cup {key} |-> IF k = key THEN body ELSE s3[k]]

(***************************************************************************)
(* createRunsHandler.                                                      *)
(***************************************************************************)
\* RejectWrite with the upload goroutine already started when validation fails.
RejectWriteAfterSpawn(msg, seq) ==
    /\ wpc' = "idle"
    /\ wresp' = [status |-> 400, error |-> msg]
    /\ uuidSeq' = seq
    /\ wkey' = ObjectKey(GenUUID(uuidSeq + 1)) /\ wbuf' = "[" /\ woffs' = <<>>
    /\ s3pc' = "put" /\ dbpc' = "none" /\ dbids' = <<>>
    /\ errCh' = <<>> /\ runIDsCh' = <<>>

\* The handler returns at once with a client error.
RejectWrite(msg, seq) ==
    /\ wpc' = "idle"
    /\ wresp' = [status |-> 400, error |-> msg]
    /\ uuidSeq' = seq
    /\ wkey' = "" /\ wbuf' = "" /\ woffs' = <<>>
    /\ s3pc' = "none" /\ dbpc' = "none" /\ dbids' = <<>>
    /\ errCh' = <<>> /\ runIDsCh' = <<>>

\* The request arrives: decode, validate and encode the batch, then start the
\* upload goroutine and the insert goroutine.
CreateRunsHandler(body) ==
    /\ wpc = "idle" /\ s3pc \in {"none", "done"} /\ dbpc \in {"none", "done"}
    /\ nWrites < MaxWrites
    /\ nWrites' = nWrites + 1
    /\ wreq' = body
    /\ wcalls' = NoCalls
    /\ wpre' = [db |-> db, s3 |-> s3]
    /\ hrecv' = 0 /\ s3Err' = NilErr /\ dbErr' = NilErr
    /\ UNCHANGED <<db, s3, rvars, tampered, pvars>>
    /\ IF ~body.ok
       THEN RejectWrite("invalid JSON body, expected an array of runs", uuidSeq)
       ELSE IF Len(body.runs) = 0
       THEN RejectWrite("No runs provided", uuidSeq)
       ELSE
         LET key == ObjectKey(uuidString(GenUUID(uuidSeq + 1)))
             enc == EncodeRuns(body.runs, 0, "[", <<>>, uuidSeq + 1, key)
         IN  IF enc.err # ""
             THEN RejectWrite(enc.err, enc.seq)
             ELSE /\ wpc' = "wait"
                  /\ wresp' = NoResp
                  /\ uuidSeq' = enc.seq
                  /\ wkey' = key /\ wbuf' = enc.buf /\ woffs' = enc.offs
                  /\ s3pc' = "put" /\ dbpc' = "acquire" /\ dbids' = <<>>
                  /\ errCh' = <<>> /\ runIDsCh' = <<>>

\* S3Upload that calls PutObject a second time after a first failure.
S3UploadRetry ==
    /\ s3pc = "put"
    /\ wcalls' = [wcalls EXCEPT !.put = @ + 1]
    /\ \/ /\ s3' = PutObject(wkey, wbuf)
          /\ errCh' = Append(errCh, NilErr)
          /\ s3pc' = "done"
       \/ /\ s3' = s3
          /\ IF wcalls.put >= 1
             THEN errCh' = Append(errCh, S3PutError) /\ s3pc' = "done"
             ELSE errCh' = errCh /\ s3pc' = "put"
    /\ UNCHANGED <<db, uuidSeq, nWrites, wpc, wreq, wkey, wbuf, woffs, dbpc, dbids,
                   runIDsCh, hrecv, s3Err, dbErr, wresp, wpre, rvars, tampered, pvars>>

\* Upload goroutine: PutObject returns and its error is sent on errCh.
S3Upload ==
    /\ s3pc = "put"
    /\ s3pc' = "done"
    /\ wcalls' = [wcalls EXCEPT !.put = @ + 1]
    /\ \/ /\ s3' = PutObject(wkey, wbuf)
          /\ errCh' = Append(errCh, NilErr)
       \/ /\ s3' = s3
          /\ errCh' = Append(errCh, S3PutError)
    /\ UNCHANGED <<db, uuidSeq, nWrites, wpc, wreq, wkey, wbuf, woffs, dbpc, dbids,
                   runIDsCh, hrecv, s3Err, dbErr, wresp, wpre, rvars, tampered, pvars>>

\* DBAcquire that returns after a failed Acquire without reporting on errCh.
DBAcquireNoReport ==
    /\ dbpc = "acquire"
    /\ \/ /\ dbpc' = "copy"
          /\ UNCHANGED <<errCh, dbids>>
       \/ /\ dbpc' = "ids"
          /\ errCh' = errCh
          /\ dbids' = <<>>
    /\ UNCHANGED <<svars, wpc, wreq, wkey, wbuf, woffs, s3pc, runIDsCh, hrecv,
                   s3Err, dbErr, wresp, wcalls, wpre, rvars, tampered, pvars>>

\* Insert goroutine: s.db.Acquire.
DBAcquire ==
    /\ dbpc = "acquire"
    /\ \/ /\ dbpc' = "copy"
          /\ UNCHANGED <<errCh, dbids>>
       \/ /\ dbpc' = "ids"
          /\ errCh' = Append(errCh, DBAcquireError)
          /\ dbids' = <<>>
    /\ UNCHANGED <<svars, wpc, wreq, wkey, wbuf, woffs, s3pc, runIDsCh, hrecv,
                   s3Err, dbErr, wresp, wcalls, wpre, rvars, tampered, pvars>>

\* Insert goroutine: conn.CopyFrom returns and its error is sent on errCh.
DBCopyFrom ==
    /\ dbpc = "copy"
    /\ dbpc' = "ids"
    /\ wcalls' = [wcalls EXCEPT !.insert = @ + 1]
    /\ \/ /\ ~KeyConflict(CopyRows(woffs))
          /\ db' = InsertRows(CopyRows(woffs))
          /\ errCh' = Append(errCh, NilErr)
          /\ dbids' = RunIDs(woffs)
       \/ /\ db' = db
          /\ errCh' = Append(errCh, DBCopyError)
          /\ dbids' = <<>>
    /\ UNCHANGED <<s3, uuidSeq, nWrites, wpc, wreq, wkey, wbuf, woffs, s3pc,
                   runIDsCh, hrecv, s3Err, dbErr, wresp, wpre, rvars, tampered, pvars>>

\* Insert goroutine: the send on runIDsCh (nil after a failure), then it returns.
DBSendIDs ==
    /\ dbpc = "ids"
    /\ dbpc' = "done"
    /\ runIDsCh' = Append(runIDsCh, dbids)
    /\ UNCHANGED <<svars, wpc, wreq, wkey, wbuf, woffs, s3pc, dbids, errCh, hrecv,
                   s3Err, dbErr, wresp, wcalls, wpre, rvars, tampered, pvars>>

\* RecordError with every received value stored in s3Err, a nil one too.
RecordErrorOverwrite(err) == [s3Err |-> err, dbErr |-> dbErr]

\* The slots after the handler received err: the first error goes to s3Err, a
\* second one to dbErr.
RecordError(err) ==
    IF err = NilErr THEN [s3Err |-> s3Err, dbErr |-> dbErr]
    ELSE IF s3Err = NilErr THEN [s3Err |-> err, dbErr |-> dbErr]
    ELSE [s3Err |-> s3Err, dbErr |-> err]

\* Handler: one iteration of the loop over errCh.
HandlerRecv ==
    /\ wpc = "wait" /\ hrecv < 2 /\ errCh # <<>>
    /\ errCh' = Tail(errCh)
    /\ hrecv' = hrecv + 1
    /\ s3Err' = RecordError(Head(errCh)).s3Err
    /\ dbErr' = RecordError(Head(errCh)).dbErr
    /\ UNCHANGED <<svars, wpc, wreq, wkey, wbuf, woffs, s3pc, dbpc, dbids, runIDsCh,
                   wresp, wcalls, wpre, rvars, tampered, pvars>>

\* FailureMessage that reports the first error only.
FailureMessageFirstOnly(e1, e2) ==
    IF e1 # NilErr THEN "S3 upload failed: " \o e1 \o ". "
    ELSE IF e2 # NilErr THEN "DB insert failed: " \o e2 ELSE ""

\* The body of the 500 response.
FailureMessage(e1, e2) ==
    (IF e1 # NilErr THEN "S3 upload failed: " \o e1 \o ". " ELSE "")
    \o (IF e2 # NilErr THEN "DB insert failed: " \o e2 ELSE "")

\* Whether the handler answers 201.
Succeeded(e1, e2) == e1 = NilErr /\ e2 = NilErr

\* HandlerRespond that answers a failure as soon as one error was received.
HandlerRespondOnFirstError ==
    /\ wpc = "wait"
    /\ hrecv = 2 \/ (hrecv = 1 /\ ~Succeeded(s3Err, dbErr))
    /\ IF Succeeded(s3Err, dbErr)
       THEN /\ runIDsCh # <<>>
            /\ runIDsCh' = Tail(runIDsCh)
            /\ wresp' = [status |-> 201, run_ids |-> Head(runIDsCh)]
       ELSE /\ runIDsCh' = runIDsCh
            /\ wresp' = [status |-> 500, error |-> FailureMessage(s3Err, dbErr)]
    /\ wpc' = "idle"
    /\ UNCHANGED <<svars, wreq, wkey, wbuf, woffs, s3pc, dbpc, dbids, errCh, hrecv,
                   s3Err, dbErr, wcalls, wpre, rvars, tampered, pvars>>

\* Handler: after the loop, read runIDsCh when nothing failed and respond.
HandlerRespond ==
    /\ wpc = "wait" /\ hrecv = 2
    /\ IF Succeeded(s3Err, dbErr)
       THEN /\ runIDsCh # <<>>
            /\ runIDsCh' = Tail(runIDsCh)
            /\ wresp' = [status |-> 201, run_ids |-> Head(runIDsCh)]
       ELSE /\ runIDsCh' = runIDsCh
            /\ wresp' = [status |-> 500, error |-> FailureMessage(s3Err, dbErr)]
    /\ wpc' = "idle"
    /\ UNCHANGED <<svars, wreq, wkey, wbuf, woffs, s3pc, dbpc, dbids, errCh, hrecv,
                   s3Err, dbErr, wcalls, wpre, rvars, tampered, pvars>>

(***************************************************************************)
(* getRunHandler and openS3RangePipe.                                      *)
(***************************************************************************)

Fields == 1..3

\* FieldName with outputs and metadata exchanged.
FieldNameSwapped(k) == IF k = 1 THEN "inputs" ELSE IF k = 2 THEN "metadata" ELSE "outputs"

\* The field of streams[k-1].
FieldName(k) == IF k = 1 THEN "inputs" ELSE IF k = 2 THEN "outputs" ELSE "metadata"

\* The static JSON writeField writes before a field's value.
FieldKey(k) == ",\"" \o FieldName(k) \o "\":"

RowRef(row, k) == IF k = 1 THEN row.inputs ELSE IF k = 2 THEN row.outputs ELSE row.metadata

S3GetError == "get object: failed"
S3ReadError == "read body: connection reset"
ErrClosedPipe == "io: read/write on closed pipe"

NoStream == [body |-> FALSE, key |-> "", start |-> 0, end |-> 0, pc |-> "none",
             data |-> "", err |-> NilErr, pipe |-> "none", errCh |-> <<>>]
NoRow == [id |-> "", trace_id |-> "", name |-> "", inputs |-> "", outputs |-> "",
          metadata |-> ""]
NoReads == [lookup |-> 0, ranges |-> [k \in 1..3 |-> <<>>], faults |-> {}]

\* Readable without the comparison of end and start.
ReadableAnyInterval(p) == p.ok /\ p.bucket # "" /\ p.key # ""

\* Whether openS3RangePipe starts a range read for the parsed reference.
Readable(p) == p.ok /\ p.bucket # "" /\ p.key # "" /\ p.end > p.start

\* openS3RangePipe up to the go statement: a nil reader, or a pipe and a goroutine.
openS3RangePipe(ref) ==
    LET p == parseS3Ref(ref)
    IN  IF ~Readable(p) THEN NoStream
        ELSE [body |-> TRUE, key |-> p.key, start |-> p.start, end |-> p.end,
              pc |-> "get", data |-> "", err |-> NilErr, pipe |-> "open",
              errCh |-> <<>>]

\* fmt.Sprintf("bytes=%d-%d", start, end-1).
RangeHeader(start, end) == "bytes=" \o Itoa(start) \o "-" \o Itoa(end - 1)

\* The literal prefix of the 200 response.
ResponsePrefix(row) ==
    "{\"id\":\"" \o uuidString(row.id) \o "\",\"trace_id\":\""
        \o uuidString(row.trace_id) \o "\",\"name\":"

\* The handler returns at once with an error response.
RejectRead(status, msg) ==
    /\ rpc' = "idle"
    /\ rresp' = [status |-> status, error |-> msg]
    /\ rrow' = NoRow
    /\ streams' = [k \in Fields |-> NoStream]
    /\ hfield' = 1 /\ hphase' = "key"
    /\ w' = <<>>

\* The request arrives: parse the id, look the row up, open the three streams,
\* write the header and the literal prefix.
GetRunHandler(idStr) ==
    /\ rpc = "idle"
    /\ rreq' = idStr
    /\ UNCHANGED <<svars, wvars, tampered, pvars>>
    /\ IF ~uuidParse(idStr).ok
       THEN /\ RejectRead(400, "id must be a valid UUID")
            /\ rcalls' = NoReads
       ELSE
         \/ /\ RejectRead(500, "failed to acquire database connection")
            /\ rcalls' = [NoReads EXCEPT !.faults = {"acquire"}]
         \/ /\ RejectRead(404, "Run with ID " \o idStr \o " not found")
            /\ rcalls' = [NoReads EXCEPT !.lookup = 1, !.faults = {"query"}]
         \/ /\ uuidParse(idStr).id \notin DOMAIN db
            /\ RejectRead(404, "Run with ID " \o idStr \o " not found")
            /\ rcalls' = [NoReads EXCEPT !.lookup = 1]
         \/ /\ uuidParse(idStr).id \in DOMAIN db
            /\ LET row == db[uuidParse(idStr).id]
               IN  /\ rrow' = row
                   /\ streams' = [k \in Fields |-> openS3RangePipe(RowRef(row, k))]
                   /\ w' = <<ResponsePrefix(row), Quote(row.name)>>
            /\ rcalls' = [NoReads EXCEPT !.lookup = 1]
            /\ rresp' = [status |-> 200]
            /\ rpc' = "stream"
            /\ hfield' = 1 /\ hphase' = "key"

\* RangeBytes with the end of the interval taken as its last byte.
RangeBytesInclusiveEnd(blob, start, end) ==
    SubSeq(blob, start + 1, Min(end + 1, Len(blob)))

\* The bytes GetObject returns for a range of an object.
RangeBytes(blob, start, end) == SubSeq(blob, start + 1, Min(end, Len(blob)))

\* Fetch goroutine of field k: GetObject returns. It fails (always possible, and
\* certain for a missing object or a range past its end), or returns a body that
\* delivers the whole range, or one that breaks after some bytes.
FetchGetObject(k) ==
    /\ streams[k].pc = "get"
    /\ LET issued == [rcalls EXCEPT !.ranges[k] =
                        Append(@, [key |-> streams[k].key,
                                   range |-> RangeHeader(streams[k].start,
                                                         streams[k].end)])]
           failed == [issued EXCEPT !.faults = @ \cup {FieldName(k)}]
       IN
       \/ /\ streams' = [streams EXCEPT ![k].pc = "done", ![k].pipe = "err",
                                        ![k].errCh = <<S3GetError>>]
          /\ rcalls' = failed
       \/ /\ streams[k].key \in DOMAIN s3
          /\ streams[k].start >= 0
          /\ streams[k].start < Len(s3[streams[k].key])
          /\ LET full == RangeBytes(s3[streams[k].key], streams[k].start, streams[k].end)
             IN  \/ /\ streams' = [streams EXCEPT ![k].pc = "copy", ![k].data = full]
                    /\ rcalls' = issued
                 \/ /\ \E n \in 1..Min(MaxPartial, Len(full)) :
                          streams' = [streams EXCEPT ![k].pc = "copy",
                                                     ![k].data = StrTo(full, n),
                                                     ![k].err = S3ReadError]
                    /\ rcalls' = failed
    /\ UNCHANGED <<svars, wvars, tampered, pvars, rpc, rreq, rrow, hfield, hphase, w, rresp>>

\* FetchClose that returns after a failed copy without reporting on errCh.
FetchCloseNoReport(k) ==
    /\ streams[k].pc = "copy"
    /\ streams[k].data = "" \/ streams[k].pipe = "rclosed"
    /\ streams' = [streams EXCEPT ![k].pc = "done",
                                  ![k].data = "",
                                  ![k].pipe = IF streams[k].pipe = "rclosed" THEN "rclosed"
                                              ELSE IF streams[k].err = NilErr
                                              THEN "eof" ELSE "err",
                                  ![k].errCh = IF streams[k].data # ""
                                                  \/ streams[k].err # NilErr
                                               THEN <<>> ELSE <<NilErr>>]
    /\ UNCHANGED <<svars, wvars, tampered, pvars, rpc, rreq, rrow, hfield, hphase, w, rresp,
                   rcalls>>

\* Fetch goroutine: io.CopyBuffer(pw, out.Body) returns once every chunk was read
\* from the pipe, or with io.ErrClosedPipe when the reader was closed under its
\* write; the pipe is closed, with the copy error if there is one, the terminal
\* error is sent on errCh and the goroutine returns.
FetchClose(k) ==
    /\ streams[k].pc = "copy"
    /\ streams[k].data = "" \/ streams[k].pipe = "rclosed"
    /\ streams' = [streams EXCEPT ![k].pc = "done",
                                  ![k].data = "",
                                  ![k].pipe = IF streams[k].pipe = "rclosed" THEN "rclosed"
                                              ELSE IF streams[k].err = NilErr
                                              THEN "eof" ELSE "err",
                                  ![k].errCh = <<IF streams[k].data # ""
                                                 THEN ErrClosedPipe ELSE streams[k].err>>]
    /\ UNCHANGED <<svars, wvars, tampered, pvars, rpc, rreq, rrow, hfield, hphase, w, rresp,
                   rcalls>>

\* writeField: the key, then {} at once for a nil reader.
WriteFieldKey ==
    /\ rpc = "stream" /\ hfield \in Fields /\ hphase = "key"
    /\ IF ~streams[hfield].body
       THEN /\ w' = w \o <<FieldKey(hfield), "{}">>
            /\ hfield' = hfield + 1
            /\ hphase' = "key"
       ELSE /\ w' = Append(w, FieldKey(hfield))
            /\ hfield' = hfield
            /\ hphase' = "copy"
    /\ UNCHANGED <<svars, wvars, tampered, pvars, rpc, rreq, rrow, streams, rresp, rcalls>>

\* writeField inside io.CopyBuffer(w, st.body): the chunk the goroutine is writing
\* to the pipe is read and written to the response.
PipeCopy ==
    /\ rpc = "stream" /\ hfield \in Fields /\ hphase = "copy"
    /\ streams[hfield].pc = "copy" /\ streams[hfield].data # ""
    /\ w' = Append(w, streams[hfield].data)
    /\ streams' = [streams EXCEPT ![hfield].data = ""]
    /\ UNCHANGED <<svars, wvars, tampered, pvars, rpc, rreq, rrow, hfield, hphase, rresp,
                   rcalls>>

\* writeField inside io.CopyBuffer(w, st.body): the write of a chunk to the
\* response fails (the client is gone), the copy returns the error and
\* writeField closes the reader, while the goroutine has nothing more to write
\* or is writing the next chunk.
PipeCopyWriteFails ==
    /\ rpc = "stream" /\ hfield \in Fields /\ hphase = "copy"
    /\ streams[hfield].pc = "copy" /\ streams[hfield].data # ""
    /\ \E rest \in {"", streams[hfield].data} :
          streams' = [streams EXCEPT ![hfield].data = rest, ![hfield].pipe = "rclosed"]
    /\ rcalls' = [rcalls EXCEPT !.faults = @ \cup {"writer"}]
    /\ UNCHANGED <<svars, wvars, tampered, pvars, rpc, rreq, rrow, hfield, hphase, w, rresp>>

\* What writeField writes after the copy: {} if the copy, the close or the fetch
\* reported an error, nothing otherwise.
Fallback(copyFailed, fetchErr) ==
    IF copyFailed \/ fetchErr # NilErr THEN <<"{}">> ELSE <<>>

\* writeField after the pipe ended: close the reader, receive the fetch error and
\* write the fallback if anything failed.
FieldFinish ==
    /\ rpc = "stream" /\ hfield \in Fields /\ hphase = "copy"
    /\ streams[hfield].pipe \in {"eof", "err", "rclosed"}
    /\ streams[hfield].errCh # <<>>
    /\ w' = w \o Fallback(streams[hfield].pipe \in {"err", "rclosed"},
                           Head(streams[hfield].errCh))
    /\ streams' = [streams EXCEPT ![hfield].errCh = Tail(@), ![hfield].pipe = "closed",
                                  ![hfield].err = NilErr]
    /\ hfield' = hfield + 1
    /\ hphase' = "key"
    /\ UNCHANGED <<svars, wvars, tampered, pvars, rpc, rreq, rrow, rresp, rcalls>>

\* The literal suffix; the handler returns.
WriteSuffix ==
    /\ rpc = "stream" /\ hfield = 4
    /\ w' = Append(w, "}")
    /\ rpc' = "idle"
    /\ UNCHANGED <<svars, wvars, tampered, pvars, rreq, rrow, streams, hfield, hphase, rresp,
                   rcalls>>

(***************************************************************************)
(* A stored reference changed outside the program (the table is plain      *)
(* text columns): emptied, made undecodable, or its range cut short.       *)
(***************************************************************************)
TamperKinds == {"empty", "undecodable", "truncated"}

\* The kinds that leave a reference parseS3Ref does not accept: nothing at all, no
\* scheme, no '/' after the bucket, no '#' fragment, offsets that are not integers.
MalformedKinds == {"empty", "noscheme", "nodelimiter", "undecodable", "nonint"}

\* The kinds that leave a reference parseS3Ref accepts and openS3RangePipe does
\* not read: an interval without bytes, no bucket, no key.
UnreadableKinds == {"emptyrange", "nobucket", "nokey"}

TamperedRef(ref, k, kind) ==
    LET p == parseS3Ref(ref)
    IN  IF kind = "empty" THEN ""
        ELSE IF kind = "undecodable" THEN StrTo(ref, IndexByte(ref, "#"))
        ELSE IF kind = "noscheme" THEN StrFrom(ref, 5)
        ELSE IF kind = "nodelimiter" THEN "s3://" \o p.bucket
        ELSE IF kind = "nonint"
        THEN "s3://" \o p.bucket \o "/" \o p.key \o "#" \o Itoa(p.start) \o "x:"
                     \o Itoa(p.end) \o "x/" \o FieldName(k)
        ELSE IF kind = "emptyrange"
        THEN S3Ref(p.bucket, p.key, p.start, p.start, FieldName(k))
        ELSE IF kind = "nobucket" THEN S3Ref("", p.key, p.start, p.end, FieldName(k))
        ELSE IF kind = "nokey" THEN S3Ref(p.bucket, "", p.start, p.end, FieldName(k))
        ELSE S3Ref(p.bucket, p.key, p.start, p.end - 1, FieldName(k))

WriteQuiet == wpc = "idle" /\ s3pc \in {"none", "done"} /\ dbpc \in {"none", "done"}

Tamper(id, k, kind) ==
    /\ rpc = "idle" /\ WriteQuiet
    /\ tampered = <<>>
    /\ id \in DOMAIN db
    /\ Readable(parseS3Ref(RowRef(db[id], k)))
    /\ tampered' = <<[id |-> id, field |-> k, kind |-> kind]>>
    /\ db' = [db EXCEPT ![id] =
                IF k = 1 THEN [@ EXCEPT !.inputs = TamperedRef(@, k, kind)]
                ELSE IF k = 2 THEN [@ EXCEPT !.outputs = TamperedRef(@, k, kind)]
                ELSE [@ EXCEPT !.metadata = TamperedRef(@, k, kind)]]
    /\ UNCHANGED <<s3, uuidSeq, nWrites, wvars, rvars, pvars>>

(***************************************************************************)
(* Requests.                                                               *)
(***************************************************************************)
\* Payload values of different lengths.
V1 == "{\"p\":1}"
V2 == "{\"q\":[22]}"
V3 == "{\"r\":\"three\"}"

\* A decoded run.
Run(id, trace, name, payload) ==
    [ID |-> id, TraceID |-> trace, Name |-> name,
     Inputs |-> payload[1], Outputs |-> payload[2], Metadata |-> payload[3]]

RunsOver(ids, traces, names, payloads) ==
    {Run(id, t, n, p) : id \in ids, t \in traces, n \in names, p \in payloads}

\* Request bodies: one that does not decode, and every list of up to MaxBatch runs.
BodiesOver(runs) ==
    {[ok |-> FALSE, runs |-> <<>>]}
    \cup {[ok |-> TRUE, runs |-> rs] : rs \in UNION {[1..n -> runs] : n \in 0..MaxBatch}}

\* The runs of the write-then-read specification.
CoreRuns ==
    RunsOver({NilID, PtrID("A"), PtrID("x")}, {"b", "y"}, {"n"}, {<<V1, V2, V3>>})
    \cup RunsOver({NilID, PtrID("A"), PtrID("x")}, {"B", "y"}, {"m"}, {<<V3, V1, "">>})

\* The runs of the write-only specification.
AllRuns ==
    RunsOver({NilID, PtrID(""), PtrID("b"), PtrID("A"), PtrID("x")}, {"B", "y"},
             {"n"}, {<<V1, V2, V3>>, <<V3, V1, "">>, <<"", "", V2>>})

\* The ids read: malformed, well-formed, and every spelling of a stored id.
GetIDs == {"x", "b"} \cup DOMAIN db \cup {UpperSpelling(u) : u \in DOMAIN db}

EmptyMap == [k \in {} |-> ""]

(***************************************************************************)
(* createRunsHandler calls served concurrently, sharing bufferPool.        *)
(***************************************************************************)
\* The goroutines net/http serves write requests on.
Handlers == {"h1", "h2"}

\* new(bytes.Buffer), and no buffer.
NewBuffer == [arr |-> "", len |-> 0]
NoBuffer == 0

\* buf.Reset(): the length becomes 0, the backing array is kept.
BufReset(b) == [arr |-> b.arr, len |-> 0]

\* The buffer after data was written to it: the bytes go into the backing array
\* after the first len bytes, over whatever the array held there.
BufWrite(b, data) ==
    [arr |-> StrTo(b.arr, b.len) \o data
                \o StrFrom(b.arr, Min(b.len + Len(data), Len(b.arr))),
     len |-> b.len + Len(data)]

\* What a read of bufReader returns: bytes.NewReader(buf.Bytes()) is a slice of
\* the first n bytes of the buffer's backing array, not a copy of them.
ReaderBytes(b, n) == StrTo(bufs[b].arr, n)

\* The locals of a handler goroutine that serves no request.
NoPoolReq ==
    [pc |-> "idle", body |-> [ok |-> FALSE, runs |-> <<>>], buf |-> NoBuffer,
     key |-> "", encoded |-> "", n |-> 0, offs |-> <<>>,
     s3pc |-> "none", dbpc |-> "none", dbids |-> <<>>,
     errCh |-> <<>>, runIDsCh |-> <<>>, hrecv |-> 0,
     s3Err |-> NilErr, dbErr |-> NilErr, resp |-> NoResp]

\* The request bodies of the concurrent writes: undecodable, one valid run, and
\* a valid run followed by one whose id is refused.
PoolBodies ==
    {[ok |-> FALSE, runs |-> <<>>],
     [ok |-> TRUE, runs |-> <<Run(PtrID("A"), "b", "n", <<V1, V2, "">>)>>],
     [ok |-> TRUE, runs |-> <<Run(PtrID("b"), "b", "m", <<V3, V3, V3>>),
                              Run(PtrID("x"), "b", "n", <<V1, V2, V3>>)>>]}

\* The pool after the handler, holding buffer b with the pool at p, started
\* its two goroutines: the buffer stays with the handler.
HeldAcrossIOReleased(p, b) == p \cup {b}

HeldAcrossIO(p, b) == p

\* Handler h takes a request: decode, bufferPool.Get (a pooled buffer, or a new
\* one), Reset, validate and encode into the buffer, start the two goroutines;
\* a return runs the deferred bufferPool.Put.
PoolHandler(h, body) ==
    /\ preq[h].pc = "idle" /\ preq[h].dbpc \in {"none", "done"}
    /\ pserved < MaxPoolWrites
    /\ pserved' = pserved + 1
    /\ UNCHANGED <<db, s3, nWrites, wvars, rvars, tampered>>
    /\ IF ~body.ok \/ Len(body.runs) = 0
       THEN /\ preq' = [preq EXCEPT ![h] =
                          [NoPoolReq EXCEPT !.body = body,
                             !.resp = [status |-> 400,
                                       error |-> IF body.ok THEN "No runs provided"
                                                 ELSE "invalid JSON body, expected an array of runs"]]]
            /\ UNCHANGED <<pool, bufs, uuidSeq>>
       ELSE \E b \in pool \cup (IF Len(bufs) < MaxBufs THEN {Len(bufs) + 1} ELSE {}) :
              LET key    == ObjectKey(uuidString(GenUUID(uuidSeq + 1)))
                  got    == IF b \in pool THEN bufs[b] ELSE NewBuffer
                  enc    == EncodeRuns(body.runs, 0, "[", <<>>, uuidSeq + 1, key)
                  filled == BufWrite(BufReset(got), enc.buf)
              IN  /\ bufs' = IF b \in pool THEN [bufs EXCEPT ![b] = filled]
                             ELSE Append(bufs, filled)
                  /\ uuidSeq' = enc.seq
                  /\ IF enc.err # ""
                     THEN /\ pool' = pool \cup {b}
                          /\ preq' = [preq EXCEPT ![h] =
                                        [NoPoolReq EXCEPT !.body = body,
                                           !.resp = [status |-> 400, error |-> enc.err]]]
                     ELSE /\ pool' = HeldAcrossIO(pool \ {b}, b)
                          /\ preq' = [preq EXCEPT ![h] =
                                        [NoPoolReq EXCEPT !.pc = "wait", !.body = body,
                                           !.buf = b, !.key = key, !.encoded = enc.buf,
                                           !.n = Len(enc.buf), !.offs = enc.offs,
                                           !.s3pc = "put", !.dbpc = "acquire"]]

\* Upload goroutine of h: PutObject reads bufReader and returns; its error is
\* sent on errCh.
PoolUpload(h) ==
    /\ preq[h].s3pc = "put"
    /\ \/ /\ s3' = PutObject(preq[h].key, ReaderBytes(preq[h].buf, preq[h].n))
          /\ preq' = [preq EXCEPT ![h].s3pc = "done", ![h].errCh = Append(@, NilErr)]
       \/ /\ s3' = s3
          /\ preq' = [preq EXCEPT ![h].s3pc = "done", ![h].errCh = Append(@, S3PutError)]
    /\ UNCHANGED <<db, uuidSeq, nWrites, wvars, rvars, tampered, pool, bufs, pserved>>

\* Insert goroutine of h: s.db.Acquire.
PoolAcquire(h) ==
    /\ preq[h].dbpc = "acquire"
    /\ \/ preq' = [preq EXCEPT ![h].dbpc = "copy"]
       \/ preq' = [preq EXCEPT ![h].dbpc = "ids", ![h].dbids = <<>>,
                               ![h].errCh = Append(@, DBAcquireError)]
    /\ UNCHANGED <<svars, wvars, rvars, tampered, pool, bufs, pserved>>

\* Insert goroutine of h: conn.CopyFrom returns and its error is sent on errCh.
PoolCopyFrom(h) ==
    /\ preq[h].dbpc = "copy"
    /\ \/ /\ ~KeyConflict(CopyRows(preq[h].offs))
          /\ db' = InsertRows(CopyRows(preq[h].offs))
          /\ preq' = [preq EXCEPT ![h].dbpc = "ids", ![h].dbids = RunIDs(preq[h].offs),
                                  ![h].errCh = Append(@, NilErr)]
       \/ /\ db' = db
          /\ preq' = [preq EXCEPT ![h].dbpc = "ids", ![h].dbids = <<>>,
                                  ![h].errCh = Append(@, DBCopyError)]
    /\ UNCHANGED <<s3, uuidSeq, nWrites, wvars, rvars, tampered, pool, bufs, pserved>>

\* Insert goroutine of h: the send on runIDsCh, then it returns.
PoolSendIDs(h) ==
    /\ preq[h].dbpc = "ids"
    /\ preq' = [preq EXCEPT ![h].dbpc = "done",
                            ![h].runIDsCh = Append(@, preq[h].dbids)]
    /\ UNCHANGED <<svars, wvars, rvars, tampered, pool, bufs, pserved>>

\* Handler h: one iteration of the loop over errCh.
PoolRecv(h) ==
    /\ preq[h].pc = "wait" /\ preq[h].hrecv < 2 /\ preq[h].errCh # <<>>
    /\ LET err == Head(preq[h].errCh)
       IN  preq' = [preq EXCEPT
                      ![h].errCh = Tail(@), ![h].hrecv = @ + 1,
                      ![h].s3Err = IF err # NilErr /\ @ = NilErr THEN err ELSE @,
                      ![h].dbErr = IF err # NilErr /\ preq[h].s3Err # NilErr
                                   THEN err ELSE @]
    /\ UNCHANGED <<svars, wvars, rvars, tampered, pool, bufs, pserved>>

\* Handler h: after the loop, read runIDsCh when nothing failed, respond and
\* return; the deferred bufferPool.Put hands the buffer back.
PoolRespond(h) ==
    /\ preq[h].pc = "wait" /\ preq[h].hrecv = 2
    /\ IF Succeeded(preq[h].s3Err, preq[h].dbErr)
       THEN /\ preq[h].runIDsCh # <<>>
            /\ preq' = [preq EXCEPT ![h].pc = "idle", ![h].buf = NoBuffer,
                          ![h].runIDsCh = Tail(@),
                          ![h].resp = [status |-> 201,
                                       run_ids |-> Head(preq[h].runIDsCh)]]
       ELSE preq' = [preq EXCEPT ![h].pc = "idle", ![h].buf = NoBuffer,
                       ![h].resp = [status |-> 500,
                                    error |-> FailureMessage(preq[h].s3Err,
                                                             preq[h].dbErr)]]
    /\ pool' = pool \cup {preq[h].buf}
    /\ UNCHANGED <<svars, wvars, rvars, tampered, bufs, pserved>>

NextPool ==
    \/ \E h \in Handlers, body \in PoolBodies : PoolHandler(h, body)
    \/ \E h \in Handlers : PoolUpload(h)
    \/ \E h \in Handlers : PoolAcquire(h)
    \/ \E h \in Handlers : PoolCopyFrom(h)
    \/ \E h \in Handlers : PoolSendIDs(h)
    \/ \E h \in Handlers : PoolRecv(h)
    \/ \E h \in Handlers : PoolRespond(h)

\* No request is being served and none was served yet.
NoRequest ==
    /\ nWrites = 0
    /\ wpc = "idle" /\ wreq = [ok |-> FALSE, runs |-> <<>>]
    /\ wkey = "" /\ wbuf = "" /\ woffs = <<>>
    /\ s3pc = "none" /\ dbpc = "none" /\ dbids = <<>>
    /\ errCh = <<>> /\ runIDsCh = <<>>
    /\ hrecv = 0 /\ s3Err = NilErr /\ dbErr = NilErr
    /\ wresp = NoResp /\ wcalls = NoCalls
    /\ rpc = "idle" /\ rreq = "" /\ rrow = NoRow
    /\ streams = [k \in Fields |-> NoStream]
    /\ hfield = 1 /\ hphase = "key" /\ w = <<>>
    /\ rresp = NoResp /\ rcalls = NoReads
    /\ tampered = <<>>
    /\ pool = {} /\ bufs = <<>> /\ pserved = 0
    /\ preq = [h \in Handlers |-> NoPoolReq]

Init ==
    /\ db = EmptyMap /\ s3 = EmptyMap /\ uuidSeq = 0
    /\ wpre = [db |-> EmptyMap, s3 |-> EmptyMap]
    /\ NoRequest

\* The stores after an earlier request wrote one run under a caller's id: its
\* batch as the encoder lays it out, and the row CopyFrom stored.
SeedRun == Run(PtrID("a"), "b", "seed", <<V2, V3, V1>>)
SeedKey == ObjectKey(uuidString(GenUUID(1)))
SeedEnc == EncodeRuns(<<SeedRun>>, 0, "[", <<>>, 1, SeedKey)

InitSeeded ==
    /\ db = [id \in {SeedEnc.offs[1].id} |-> CopyRows(SeedEnc.offs)[1]]
    /\ s3 = [k \in {SeedKey} |-> SeedEnc.buf]
    /\ uuidSeq = SeedEnc.seq
    /\ wpre = [db |-> db, s3 |-> s3]
    /\ NoRequest

ReadSteps ==
    \/ WriteQuiet /\ \E id \in GetIDs : GetRunHandler(id)
    \/ \E k \in Fields : FetchGetObject(k)
    \/ \E k \in Fields : FetchClose(k)
    \/ WriteFieldKey
    \/ PipeCopy
    \/ FieldFinish
    \/ WriteSuffix

WriteSteps ==
    \/ S3Upload
    \/ DBAcquire
    \/ DBCopyFrom
    \/ DBSendIDs
    \/ HandlerRecv
    \/ HandlerRespond

\* Requests served one at a time: a batch of the core runs is written, records
\* are read.
Next ==
    \/ rpc = "idle" /\ wpc = "idle" /\ \E body \in BodiesOver(CoreRuns) : CreateRunsHandler(body)
    \/ WriteSteps
    \/ ReadSteps

Spec == Init /\ [][Next]_vars

\* Write requests only, over every kind of run.
NextWrite ==
    \/ wpc = "idle" /\ \E body \in BodiesOver(AllRuns) : CreateRunsHandler(body)
    \/ WriteSteps

SpecWrite == Init /\ [][NextWrite]_vars

\* Write requests only, every goroutine that can take a step eventually scheduled
\* and every store call eventually returning.
NextWriteLive ==
    \/ wpc = "idle" /\ \E body \in BodiesOver(CoreRuns) : CreateRunsHandler(body)
    \/ WriteSteps

WriteFairness ==
    /\ WF_vars(S3Upload) /\ WF_vars(DBAcquire) /\ WF_vars(DBCopyFrom)
    /\ WF_vars(DBSendIDs) /\ WF_vars(HandlerRecv) /\ WF_vars(HandlerRespond)

SpecWriteLive == Init /\ [][NextWriteLive]_vars /\ WriteFairness

\* Write requests only, to stores that already hold a run.
SpecSeeded == InitSeeded /\ [][NextWrite]_vars

\* Write then read, with a stored reference changed in between.
NextEnv ==
    \/ Next
    \/ \E id \in DOMAIN db, k \in Fields, kind \in TamperKinds : Tamper(id, k, kind)

SpecEnv == Init /\ [][NextEnv]_vars

\* One run written, a stored reference made malformed, the run read.
RefRuns == RunsOver({NilID}, {"b"}, {"n"}, {<<V1, V2, V3>>})

NextRefs ==
    \/ rpc = "idle" /\ wpc = "idle" /\ \E body \in BodiesOver(RefRuns) : CreateRunsHandler(body)
    \/ WriteSteps
    \/ ReadSteps
    \/ \E id \in DOMAIN db, k \in Fields, kind \in MalformedKinds : Tamper(id, k, kind)

SpecRefs == Init /\ [][NextRefs]_vars

\* json.RawMessage.UnmarshalJSON stores the bytes of the value it is given, the
\* four bytes of the literal for a JSON null.
NullRaw == "null"

\* Runs with a payload field submitted as null, the others given or omitted.
NullRuns == RunsOver({NilID}, {"b"}, {"n"}, {<<NullRaw, V1, "">>, <<V2, NullRaw, V3>>})

\* One batch with null payload fields written, its runs read.
NextNull ==
    \/ rpc = "idle" /\ wpc = "idle" /\ \E body \in BodiesOver(NullRuns) : CreateRunsHandler(body)
    \/ WriteSteps
    \/ ReadSteps

SpecNull == Init /\ [][NextNull]_vars

\* Reads of a stored run, its references intact or one of them unusable, the
\* response writer failing or not; every goroutine that can take a step is
\* eventually scheduled and every store call eventually returns.
NextReadLive ==
    \/ \E id \in GetIDs : GetRunHandler(id)
    \/ \E k \in Fields : FetchGetObject(k)
    \/ \E k \in Fields : FetchClose(k)
    \/ WriteFieldKey
    \/ PipeCopy
    \/ PipeCopyWriteFails
    \/ FieldFinish
    \/ WriteSuffix
    \/ \E id \in DOMAIN db, k \in Fields, kind \in {"empty", "emptyrange"} :
          Tamper(id, k, kind)

ReadFairness ==
    /\ \A k \in Fields : WF_vars(FetchGetObject(k)) /\ WF_vars(FetchClose(k))
    /\ WF_vars(WriteFieldKey) /\ WF_vars(PipeCopy \/ PipeCopyWriteFails)
    /\ WF_vars(FieldFinish) /\ WF_vars(WriteSuffix)

SpecReadLive == InitSeeded /\ [][NextReadLive]_vars /\ ReadFairness

\* Write requests served concurrently by the handler goroutines.
SpecPool == Init /\ [][NextPool]_vars

\* A write request served while read requests for the ids of its batch are
\* served: the handlers and their goroutines interleave freely.
ConcRuns ==
    {Run(PtrID("A"), "b", "n", <<V1, V2, V3>>), Run(PtrID("b"), "b", "m", <<V3, V1, "">>)}
ConcIDs == {"A", "b"}

NextConc ==
    \/ wpc = "idle" /\ \E body \in BodiesOver(ConcRuns) : CreateRunsHandler(body)
    \/ WriteSteps
    \/ \E id \in ConcIDs : GetRunHandler(id)
    \/ \E k \in Fields : FetchGetObject(k)
    \/ \E k \in Fields : FetchClose(k)
    \/ WriteFieldKey
    \/ PipeCopy
    \/ FieldFinish
    \/ WriteSuffix

SpecConc == Init /\ [][NextConc]_vars

\* One run written, a stored reference changed in any of the ways, the run read.
NextRanges ==
    \/ rpc = "idle" /\ wpc = "idle" /\ \E body \in BodiesOver(RefRuns) : CreateRunsHandler(body)
    \/ WriteSteps
    \/ ReadSteps
    \/ \E id \in DOMAIN db, k \in Fields,
          kind \in MalformedKinds \cup UnreadableKinds \cup {"truncated"} : Tamper(id, k, kind)

SpecRanges == Init /\ [][NextRanges]_vars

(***************************************************************************)
(* Properties.                                                             *)
(***************************************************************************)
RECURSIVE ConcatAll(_)
\* The bytes of a sequence of chunks.
ConcatAll(chunks) ==
    IF chunks = <<>> THEN "" ELSE Head(chunks) \o ConcatAll(Tail(chunks))

\* The body of the read response so far.
ResponseBody == ConcatAll(w)

\* The last write was answered; the last read was answered 200 and is complete.
WriteAnswered == wpc = "idle" /\ wresp.status # 0
ReadAnswered == rpc = "idle" /\ rresp.status # 0
ReadComplete == rpc = "idle" /\ rresp.status = 200

SubmittedField(run, k) ==
    IF k = 1 THEN run.Inputs ELSE IF k = 2 THEN run.Outputs ELSE run.Metadata

\* The JSON object a read is to return for the given values.
ExpectedBody(id, trace, name, values) ==
    "{\"id\":\"" \o id \o "\",\"trace_id\":\"" \o trace \o "\",\"name\":\"" \o name
        \o "\",\"inputs\":" \o values[1] \o ",\"outputs\":" \o values[2]
        \o ",\"metadata\":" \o values[3] \o "}"

\* The values submitted for run i of the last write, {} for an omitted field.
SubmittedValues(i) == [k \in Fields |-> PayloadBytes(SubmittedField(wreq.runs[i], k))]

\* The last read asked for the i-th identifier the last write returned.
ReadOfReturned(i) ==
    /\ WriteAnswered /\ wresp.status = 201 /\ i \in 1..Len(wresp.run_ids)
    /\ ReadAnswered /\ uuidParse(rreq).ok /\ uuidParse(rreq).id = wresp.run_ids[i]

\* The chunk positions of the field keys in the response, and the bytes emitted
\* after the key of field k in a complete response.
KeyLiterals == <<",\"inputs\":", ",\"outputs\":", ",\"metadata\":">>
IsFieldKey(chunk) == \E k \in Fields : chunk = KeyLiterals[k]
KeyPos(k) ==
    CHOOSE i \in 1..Len(w) : w[i] = KeyLiterals[k] /\ \A j \in 1..(i - 1) : w[j] # KeyLiterals[k]
Emitted(k) ==
    ConcatAll(SubSeq(w, KeyPos(k) + 1, (IF k = 3 THEN Len(w) ELSE KeyPos(k + 1)) - 1))

\* The bytes a stored reference denotes in the bucket.
Referenced(ref) ==
    LET p == parseS3Ref(ref)
    IN  IF Readable(p) /\ p.key \in DOMAIN s3 /\ p.start >= 0
        THEN RangeBytes(s3[p.key], p.start, p.end) ELSE ""

\* C1 (round trip): after a successful write, a read of a returned identifier
\* during which no store call fails answers 200 with that record's id, trace_id
\* and name and with the three values submitted for that record.
C1_RoundTrip ==
    \A i \in 1..MaxBatch :
        (ReadOfReturned(i) /\ rcalls.faults = {}) =>
            /\ rresp.status = 200
            /\ ResponseBody = ExpectedBody(wresp.run_ids[i],
                                           uuidParse(wreq.runs[i].TraceID).id,
                                           wreq.runs[i].Name, SubmittedValues(i))

\* The second record of a batch of two different records was read back.
C1_Witness ==
    /\ ReadOfReturned(2) /\ rcalls.faults = {} /\ rresp.status = 200
    /\ SubmittedValues(1) # SubmittedValues(2)
    /\ wreq.runs[2].Metadata = ""

\* C2 (offset correctness): for every record of an encoded batch and each field,
\* the bytes of the blob in the recorded interval [start, end) are the value
\* written for that field of that record; the blob is the encoded buffer and,
\* once uploaded, the stored object.
C2_OffsetCorrectness ==
    \A i \in 1..Len(woffs) : \A k \in Fields :
        LET p == parseS3Ref(RowRef(CopyRows(woffs)[i], k))
        IN  /\ p.ok /\ p.key = wkey /\ 0 <= p.start /\ p.start < p.end /\ p.end <= Len(wbuf)
            /\ SubSeq(wbuf, p.start + 1, p.end) = SubmittedValues(i)[k]
            /\ wkey \in DOMAIN s3 =>
                  SubSeq(s3[wkey], p.start + 1, p.end) = SubmittedValues(i)[k]

\* A batch of two runs, one with an omitted field, was encoded and uploaded.
C2_Witness ==
    /\ Len(woffs) = 2 /\ wkey \in DOMAIN s3
    /\ wreq.runs[1].Metadata = "" /\ wreq.runs[2].Inputs # ""

\* The upload and the insert of the last write, as the stores show them.
UploadDone == wkey \in DOMAIN s3 /\ wkey \notin DOMAIN wpre.s3
InsertDone ==
    /\ woffs # <<>>
    /\ \A i \in 1..Len(woffs) : woffs[i].id \in DOMAIN db /\ woffs[i].id \notin DOMAIN wpre.db

\* C3: a write that passed validation is answered 201 exactly when both the
\* upload and the insert succeeded, and 500 otherwise.
C3_CreatedIffBoth ==
    (WriteAnswered /\ wresp.status # 400) =>
        /\ wresp.status \in {201, 500}
        /\ (wresp.status = 201) <=> (UploadDone /\ InsertDone)

\* The insert failed alone and its error was the first one the handler received.
C3_Witness ==
    /\ WriteAnswered /\ wresp.status = 500
    /\ UploadDone /\ ~InsertDone /\ s3Err = DBCopyError

\* C4: whenever the write answers an error, no index row of the batch is stored.
C4_NoRowsAfterError ==
    (WriteAnswered /\ wresp.status # 201) => db = wpre.db

\* C5: a successful write returns one identifier per submitted run, the i-th one
\* being the stored id of the i-th run: the caller's when one was supplied, and
\* the row stored under it carries the i-th run's name and trace_id.
C5_IdsInOrder ==
    (WriteAnswered /\ wresp.status = 201) =>
        /\ Len(wresp.run_ids) = Len(wreq.runs)
        /\ \A i \in 1..Len(wreq.runs) :
              LET run == wreq.runs[i]
                  id  == wresp.run_ids[i]
              IN  /\ id \in DOMAIN db
                  /\ db[id].name = run.Name
                  /\ db[id].trace_id = uuidParse(run.TraceID).id
                  /\ (run.ID # NilID /\ run.ID[1] # "") => id = uuidParse(run.ID[1]).id

\* Two runs with different names were written.
C5_Witness ==
    /\ WriteAnswered /\ wresp.status = 201 /\ Len(wreq.runs) = 2
    /\ wreq.runs[1].Name # wreq.runs[2].Name

\* The last read was of the row whose reference was changed, which a successful
\* write had stored, and no store call failed during it.
ReadOfTampered(i) ==
    /\ ReadOfReturned(i) /\ rcalls.faults = {}
    /\ tampered # <<>> /\ tampered[1].id = wresp.run_ids[i]
    /\ rrow = db[tampered[1].id]

\* C6 (field independence): with exactly one field's reference corrupted, the read
\* still answers 200, that field renders as {} and the other two as submitted.
C6_FieldIndependence ==
    \A i \in 1..MaxBatch :
        ReadOfTampered(i) =>
            /\ rresp.status = 200
            /\ ResponseBody =
                 ExpectedBody(wresp.run_ids[i], uuidParse(wreq.runs[i].TraceID).id,
                              wreq.runs[i].Name,
                              [SubmittedValues(i) EXCEPT ![tampered[1].field] = "{}"])

\* C7: in a complete response each field's value is either the complete bytes of
\* the referenced range or {}, and exactly {} when its range read failed.
C7_ValueOrEmptyObject ==
    ReadComplete =>
        \A k \in Fields :
            /\ Emitted(k) \in {"{}", Referenced(RowRef(rrow, k))}
            /\ FieldName(k) \in rcalls.faults => Emitted(k) = "{}"

\* C8: the response starts with the literal prefix and the name, the field keys
\* follow in the order inputs, outputs, metadata, each once, and a complete
\* response has all three and ends with the literal suffix.
C8_FixedKeyOrder ==
    rresp.status = 200 =>
        LET keys == SelectSeq(w, IsFieldKey)
        IN  /\ Len(w) >= 2 /\ w[1] = ResponsePrefix(rrow) /\ w[2] = Quote(rrow.name)
            /\ Len(keys) <= 3
            /\ \A k \in 1..Len(keys) : keys[k] = KeyLiterals[k]
            /\ Len(w) > 2 => w[3] = KeyLiterals[1]
            /\ rpc = "stream" => Len(keys) = IF hphase = "copy" THEN hfield ELSE hfield - 1
            /\ rpc = "idle" => Len(keys) = 3 /\ w[Len(w)] = "}"

\* The handler is past inputs and waits for outputs while the metadata read,
\* started last, has already failed.
C8_Witness ==
    /\ rpc = "stream" /\ hfield = 2 /\ hphase = "copy"
    /\ streams[2].pc = "get" /\ streams[3].pc = "done" /\ streams[3].pipe = "err"

\* The runs of the last request that are invalid: a supplied id or a trace_id
\* that is not an identifier.
BadID(run) == run.ID # NilID /\ run.ID[1] # "" /\ ~uuidParse(run.ID[1]).ok
BadTraceID(run) == ~uuidParse(run.TraceID).ok
Offending == {i \in 1..Len(wreq.runs) : BadID(wreq.runs[i]) \/ BadTraceID(wreq.runs[i])}
LowestOffending == CHOOSE i \in Offending : \A j \in Offending : i <= j

\* C9 (identifier validation): a batch with an invalid trace_id is answered with a
\* client error naming the lowest offending index (0-based; the trace_id error
\* unless that run's id is invalid too), nothing is persisted or uploaded.
C9_InvalidTraceID ==
    (nWrites > 0 /\ wreq.ok /\ \E i \in 1..Len(wreq.runs) : BadTraceID(wreq.runs[i])) =>
        /\ WriteAnswered /\ wresp.status = 400
        /\ wresp.error = IF BadID(wreq.runs[LowestOffending])
                         THEN "invalid id at index " \o ToString(LowestOffending - 1)
                         ELSE "invalid trace_id at index " \o ToString(LowestOffending - 1)
        /\ db = wpre.db /\ s3 = wpre.s3 /\ s3pc = "none" /\ dbpc = "none"

\* The second run of a batch has the invalid trace_id, the first one is valid.
C9_Witness ==
    /\ nWrites > 0 /\ wreq.ok /\ Len(wreq.runs) = 2
    /\ Offending = {2} /\ BadTraceID(wreq.runs[2])
    /\ wresp.status = 400

\* C10: a request answered with a client error issued no store call and left both
\* stores as they were.
C10_ClientErrorNoIO ==
    /\ (WriteAnswered /\ wresp.status = 400) =>
          wcalls = NoCalls /\ db = wpre.db /\ s3 = wpre.s3
    /\ (ReadAnswered /\ rresp.status = 400) =>
          rcalls.lookup = 0 /\ \A k \in Fields : rcalls.ranges[k] = <<>>

\* A batch with a malformed identifier was rejected, and a read with a malformed
\* identifier was rejected.
C10_Witness ==
    /\ WriteAnswered /\ wresp.status = 400 /\ wreq.ok /\ Offending # {}
    /\ ReadAnswered /\ rresp.status = 400


\* C11: a read of a well-formed identifier for which the lookup yields no row,
\* because the id is unknown or because the index store call fails (obtaining a
\* connection included), answers 404 with no payload, never a server error.
C11_LookupFailureNotFound ==
    (ReadAnswered /\ uuidParse(rreq).ok /\ rrow = NoRow) =>
        rresp.status = 404 /\ w = <<>>


\* C12: whatever a write request submits (an id already persisted, an id repeated
\* within the batch), every row stored before it stays as it was, and the rows
\* it adds are one per new id: no two rows share an id.
C12_IdImmutableUnique ==
    /\ \A id \in DOMAIN wpre.db : id \in DOMAIN db /\ db[id] = wpre.db[id]
    /\ db # wpre.db =>
          Cardinality(DOMAIN db) = Cardinality(DOMAIN wpre.db) + Len(woffs)

\* A batch that reuses a persisted id next to a new one was handed to CopyFrom
\* and refused.
C12_Witness ==
    /\ WriteAnswered /\ wcalls.insert = 1 /\ Len(woffs) = 2 /\ db = wpre.db
    /\ woffs[1].id \in DOMAIN wpre.db /\ woffs[2].id \notin DOMAIN wpre.db
    /\ wresp.status = 500


\* C13: a successful write of n runs created exactly one object, under the key
\* batches/<batch-id>.json, and exactly n rows, one per submitted run, each with
\* that run's id, trace_id and name and three references naming that object.
C13_OneBlobNRows ==
    (WriteAnswered /\ wresp.status = 201) =>
        /\ wcalls.put = 1
        /\ DOMAIN s3 \ DOMAIN wpre.s3 = {wkey}
        /\ \E g \in GenUUIDs : wkey = "batches/" \o g \o ".json"
        /\ \A key \in DOMAIN wpre.s3 : s3[key] = wpre.s3[key]
        /\ Cardinality(DOMAIN db \ DOMAIN wpre.db) = Len(wreq.runs)
        /\ DOMAIN db \ DOMAIN wpre.db = {wresp.run_ids[i] : i \in 1..Len(wresp.run_ids)}
        /\ \A i \in 1..Len(wreq.runs) :
              LET row == db[wresp.run_ids[i]]
              IN  /\ row.id = wresp.run_ids[i]
                  /\ row.trace_id = uuidParse(wreq.runs[i].TraceID).id
                  /\ row.name = wreq.runs[i].Name
                  /\ \A k \in Fields :
                        LET p == parseS3Ref(RowRef(row, k))
                        IN  p.ok /\ p.bucket = "runs" /\ p.key = wkey

\* Two runs were written to stores that already held an object and a row.
C13_Witness ==
    /\ WriteAnswered /\ wresp.status = 201 /\ Len(wreq.runs) = 2
    /\ wpre.db # EmptyMap /\ wpre.s3 # EmptyMap


\* C14 (empty-field default): a field omitted from a submitted run is encoded in
\* the blob as {} with an interval of length exactly 2, and a read of the run
\* whose range read of that field did not fail returns {} for it.
C14_EmptyFieldDefault ==
    \A i \in 1..Len(woffs) : \A k \in Fields :
        SubmittedField(wreq.runs[i], k) = "" =>
            LET p == parseS3Ref(RowRef(CopyRows(woffs)[i], k))
            IN  /\ p.ok /\ p.end = p.start + 2
                /\ SubSeq(wbuf, p.start + 1, p.end) = "{}"
                /\ (ReadOfReturned(i) /\ ReadComplete /\ FieldName(k) \notin rcalls.faults)
                      => Emitted(k) = "{}"

\* A run submitted without metadata was written and read back through a range
\* read of its metadata.
C14_Witness ==
    \E i \in 1..Len(woffs) :
        /\ wreq.runs[i].Metadata = "" /\ ReadOfReturned(i) /\ ReadComplete
        /\ rcalls.faults = {} /\ Len(rcalls.ranges[3]) = 1


\* C15 as stated: every write that passed validation has issued the upload
\* exactly once and the bulk insert exactly once when it answers.
C15_EachStoreCallOnce ==
    (WriteAnswered /\ wresp.status # 400) => wcalls.put = 1 /\ wcalls.insert = 1

\* C15 amended: the upload is issued exactly once, and the bulk insert exactly
\* once unless the insert task failed to obtain a connection, and then not at
\* all; whether the other task failed makes no difference, and neither call is
\* ever issued a second time.
C15_EachTaskOnce ==
    /\ wcalls.put <= 1 /\ wcalls.insert <= 1
    /\ (WriteAnswered /\ wresp.status # 400) =>
          /\ wcalls.put = 1
          /\ wcalls.insert = IF DBAcquireError \in {s3Err, dbErr} THEN 0 ELSE 1

\* The upload failed first and the insert was issued all the same, and succeeded.
C15_Witness ==
    /\ WriteAnswered /\ wresp.status = 500
    /\ s3Err = S3PutError /\ dbErr = NilErr
    /\ wcalls.put = 1 /\ wcalls.insert = 1 /\ InsertDone


\* The malformed reference stored in the index, if one was.
MalformedRef == RowRef(db[tampered[1].id], tampered[1].field)

\* C16: decoding a malformed reference (empty, without scheme, without the
\* bucket/key delimiter, without the '#' fragment, with offsets that are not
\* integers) returns ok = false, and a read of the row issues no range read for
\* that field and renders it as {}.
C16_MalformedRefNoPayload ==
    tampered # <<>> =>
        /\ ~parseS3Ref(MalformedRef).ok
        /\ (rresp.status = 200 /\ rrow = db[tampered[1].id]) =>
              /\ ~streams[tampered[1].field].body
              /\ rcalls.ranges[tampered[1].field] = <<>>
              /\ ReadComplete => Emitted(tampered[1].field) = "{}"

\* A row whose outputs reference has offsets that are not integers was read to
\* the end.
C16_Witness ==
    /\ tampered # <<>> /\ tampered[1].kind = "nonint" /\ tampered[1].field = 2
    /\ ReadComplete /\ rrow = db[tampered[1].id]
    /\ Len(rcalls.ranges[1]) = 1


\* C17 as stated: decoding a reference the write path produced returns ok = true
\* with the same container, key, start, end and field name.
C17_RoundTripWithField ==
    \A i \in 1..Len(woffs) : \A k \in Fields :
        LET p == parseS3Ref(RowRef(CopyRows(woffs)[i], k))
        IN  /\ p.ok /\ p.bucket = "runs" /\ p.key = wkey
            /\ "field" \in DOMAIN p
            /\ p.field = FieldName(k)

\* C17 amended: every reference the write path produced is the encoding of its
\* container, key, an interval of the length of the field's value and the field
\* name, and decoding it returns ok = true with that container, key, start and
\* end; the field name is not among the values decode returns.
C17_CodecRoundTrip ==
    \A i \in 1..Len(woffs) : \A k \in Fields :
        LET ref == RowRef(CopyRows(woffs)[i], k)
            n   == Len(SubmittedValues(i)[k])
        IN  \E start \in 0..Len(wbuf) :
                /\ ref = S3Ref("runs", wkey, start, start + n, FieldName(k))
                /\ parseS3Ref(ref) = [bucket |-> "runs", key |-> wkey, start |-> start,
                                      end |-> start + n, ok |-> TRUE]

\* Two runs were encoded, so offsets of one, two and three digits were produced.
C17_Witness ==
    /\ Len(woffs) = 2 /\ Len(wbuf) > 100
    /\ parseS3Ref(woffs[1].inputsRef).start < 100
    /\ parseS3Ref(woffs[2].metadataRef).end > 100


\* C18: no byte of a field's value is in the response before that field's range
\* read has completed (its fetch goroutine has closed the pipe and reported).
C18_NoByteBeforeReadDone ==
    (rpc = "stream" /\ hfield \in Fields /\ hphase = "copy"
        /\ w[Len(w)] # KeyLiterals[hfield]) =>
            streams[hfield].pc = "done"


\* C19: the write response, 201 or 500, exists only once both the upload task and
\* the insert task have reported their outcome on errCh and the handler has
\* received both reports.
C19_RespondAfterBoth ==
    wresp.status \in {201, 500} =>
        /\ s3pc = "done" /\ dbpc \in {"ids", "done"}
        /\ hrecv = 2 /\ errCh = <<>>
        /\ wcalls.put = 1

\* The insert task failed first, the handler answered after the upload, which
\* succeeded, had reported too.
C19_Witness ==
    /\ WriteAnswered /\ wresp.status = 500
    /\ s3Err = DBAcquireError /\ dbErr = NilErr /\ UploadDone


\* Whether sub occurs in s.
Contains(s, sub) ==
    \E i \in 1..(Len(s) - Len(sub) + 1) : SubSeq(s, i, i + Len(sub) - 1) = sub

\* The error the insert task of the last write ended with, if it failed: it
\* never reached CopyFrom, or CopyFrom refused the rows.
InsertError == IF wcalls.insert = 0 THEN DBAcquireError ELSE DBCopyError

\* C20: when both the upload and the insert failed, the failure description of
\* the response contains the upload's error description and the insert's.
C20_BothErrorsReported ==
    (WriteAnswered /\ wresp.status # 400 /\ ~UploadDone /\ ~InsertDone) =>
        /\ wresp.status = 500
        /\ Contains(wresp.error, S3PutError)
        /\ Contains(wresp.error, InsertError)

\* Both failed and the insert's failure was the first the handler received.
C20_Witness ==
    /\ WriteAnswered /\ wresp.status = 500 /\ ~UploadDone /\ ~InsertDone
    /\ s3Err = DBCopyError /\ dbErr = S3PutError


\* C21: the 500 body attributes each error to the operation that produced it:
\* the part labelled "S3 upload failed" is there exactly when the upload failed
\* and carries the upload's error, the part labelled "DB insert failed" is there
\* exactly when the insert failed and carries the insert's error.
C21_ErrorsAttributed ==
    (WriteAnswered /\ wresp.status = 500) =>
        /\ Contains(wresp.error, "S3 upload failed: ") <=> ~UploadDone
        /\ ~UploadDone => Contains(wresp.error, "S3 upload failed: " \o S3PutError)
        /\ Contains(wresp.error, "DB insert failed: ") <=> ~InsertDone
        /\ ~InsertDone => Contains(wresp.error, "DB insert failed: " \o InsertError)


\* C22: a range read is issued only for a reference that decoded with ok = true,
\* a non-empty bucket and key and end > start; it asks for that key and for
\* exactly the bytes start .. end-1; at most one is issued per field per request.
C22_RangeReadOnlyWhenValid ==
    rresp.status = 200 =>
        \A k \in Fields :
            LET p == parseS3Ref(RowRef(rrow, k))
            IN  /\ Len(rcalls.ranges[k]) <= 1
                /\ rcalls.ranges[k] # <<>> =>
                      /\ p.ok /\ p.bucket # "" /\ p.key # "" /\ p.end > p.start
                      /\ rcalls.ranges[k][1] =
                            [key |-> p.key,
                             range |-> "bytes=" \o ToString(p.start) \o "-"
                                                \o ToString(p.end - 1)]

\* A row whose metadata reference has an interval without bytes was read to the
\* end: range reads for inputs and outputs, none for metadata.
C22_Witness ==
    /\ tampered # <<>> /\ tampered[1].kind = "emptyrange" /\ tampered[1].field = 3
    /\ ReadComplete /\ rrow = db[tampered[1].id]
    /\ Len(rcalls.ranges[1]) = 1 /\ Len(rcalls.ranges[2]) = 1 /\ rcalls.ranges[3] = <<>>


\* C25: a payload field submitted as JSON null is encoded in the blob as {} with
\* an interval of length 2, and a read of the run whose range read of that field
\* did not fail returns {} for it.
C25_NullFieldDefault ==
    \A i \in 1..Len(woffs) : \A k \in Fields :
        SubmittedField(wreq.runs[i], k) = "null" =>
            LET p == parseS3Ref(RowRef(CopyRows(woffs)[i], k))
            IN  /\ p.ok /\ p.end = p.start + 2
                /\ SubSeq(wbuf, p.start + 1, p.end) = "{}"
                /\ (ReadOfReturned(i) /\ ReadComplete /\ FieldName(k) \notin rcalls.faults)
                      => Emitted(k) = "{}"


\* The id texts of the requests that are identifiers, in either spelling.
ValidIDTexts == {"a", "b", "A", "B"}
CanonicalID(text) == IF text = "A" THEN "a" ELSE IF text = "B" THEN "b" ELSE text

\* The first run of the last request whose supplied id or trace_id is refused,
\* the empty id counted as refused (left) or as not supplied (right).
FirstRefused(emptyIsInvalid) ==
    LET bad == {i \in 1..Len(wreq.runs) :
                  \/ wreq.runs[i].ID # NilID
                       /\ wreq.runs[i].ID[1] \notin ValidIDTexts
                       /\ (emptyIsInvalid \/ wreq.runs[i].ID[1] # "")
                  \/ wreq.runs[i].TraceID \notin ValidIDTexts}
    IN  IF bad = {} THEN 0 ELSE CHOOSE i \in bad : \A j \in bad : i <= j

\* What C26 asks of a decoded, non-empty batch, for either reading of the empty id.
SuppliedIDsHonoured(emptyIsInvalid) ==
    LET f == FirstRefused(emptyIsInvalid)
        generated(i) == \/ wreq.runs[i].ID = NilID
                        \/ ~emptyIsInvalid /\ wreq.runs[i].ID[1] = ""
    IN  IF f # 0
        THEN /\ wresp.status = 400 /\ woffs = <<>> /\ db = wpre.db
             /\ wreq.runs[f].ID # NilID /\ wreq.runs[f].ID[1] \notin ValidIDTexts
                   /\ (emptyIsInvalid \/ wreq.runs[f].ID[1] # "")
                   => wresp.error = "invalid id at index " \o ToString(f - 1)
        ELSE /\ Len(woffs) = Len(wreq.runs)
             /\ \A i \in 1..Len(woffs) :
                   IF generated(i)
                   THEN woffs[i].id \in GenUUIDs
                   ELSE woffs[i].id = CanonicalID(wreq.runs[i].ID[1])
             /\ wresp.status = 201 =>
                   \A i \in 1..Len(woffs) :
                       wresp.run_ids[i] = woffs[i].id /\ woffs[i].id \in DOMAIN db

\* C26 as stated: a supplied id that is an identifier becomes the run's id, one
\* that is not, the empty string included, has the batch rejected with a client
\* error naming the run's index, and an id is generated only when none is supplied.
C26_EmptyIDRejected ==
    (nWrites > 0 /\ wreq.ok /\ wreq.runs # <<>>) => SuppliedIDsHonoured(TRUE)

\* C26 amended: as stated, except that an empty id string counts as no id
\* supplied: an identifier is generated for it.
C26_SuppliedIDHonoured ==
    (nWrites > 0 /\ wreq.ok /\ wreq.runs # <<>>) => SuppliedIDsHonoured(FALSE)

\* A batch of a run with an empty id and one with an id in upper-case spelling
\* was written.
C26_Witness ==
    /\ WriteAnswered /\ wresp.status = 201 /\ Len(wreq.runs) = 2
    /\ wreq.runs[1].ID = PtrID("") /\ wreq.runs[2].ID = PtrID("A")


\* The interval recorded for field k of run i of the encoded batch.
Interval(i, k) == parseS3Ref(RowRef(CopyRows(woffs)[i], k))

\* C29: within one encoded batch, for each run 0 < inputs.start < inputs.end <
\* outputs.start < outputs.end < metadata.start < metadata.end < blob length,
\* and every interval of a run ends before every interval of the next begins.
C29_IntervalsOrdered ==
    /\ \A i \in 1..Len(woffs) :
          /\ 0 < Interval(i, 1).start
          /\ Interval(i, 1).start < Interval(i, 1).end
          /\ Interval(i, 1).end < Interval(i, 2).start
          /\ Interval(i, 2).start < Interval(i, 2).end
          /\ Interval(i, 2).end < Interval(i, 3).start
          /\ Interval(i, 3).start < Interval(i, 3).end
          /\ Interval(i, 3).end < Len(wbuf)
    /\ \A i \in 1..(Len(woffs) - 1) : Interval(i, 3).end < Interval(i + 1, 1).start

\* A batch of two runs was encoded, with a field omitted in each.
C29_Witness ==
    /\ Len(woffs) = 2 /\ wreq.runs[1].Metadata = "" /\ wreq.runs[2].Inputs = ""
    /\ Interval(2, 1).start > Interval(1, 3).end


\* C27: every write that passed validation ends with one response and with both
\* goroutines returned, whatever the outcomes: the two reports were received,
\* no send ever found errCh (capacity 2) or runIDsCh (capacity 1) full, and a
\* response once given stays as it is.
C27_WriteTerminates ==
    /\ [](Len(errCh) <= 2 /\ Len(runIDsCh) <= 1)
    /\ [][wresp.status \in {201, 500} => (wresp' = wresp \/ nWrites' # nWrites)]_vars
    /\ (wpc = "wait") ~>
          (/\ wpc = "idle" /\ wresp.status \in {201, 500}
           /\ s3pc = "done" /\ dbpc = "done" /\ hrecv = 2 /\ errCh = <<>>)

\* The write failed on the connection and the insert goroutine has returned,
\* its nil list of ids left in runIDsCh, which nobody receives.
C27_Witness ==
    /\ WriteAnswered /\ wresp.status = 500 /\ wcalls.insert = 0
    /\ s3pc = "done" /\ dbpc = "done" /\ runIDsCh = <<<<>>>>


\* C28: every read that reached the streaming phase completes its response and
\* all its fetch goroutines return, whether a field has no usable reference, its
\* range read fails at open or mid-stream, or the response writer fails.
C28_ReadTerminates ==
    (rpc = "stream") ~>
        (rpc = "idle" /\ \A k \in Fields : streams[k].pc \in {"none", "done"})

\* A read ended after the writer failed while the goroutine of inputs was
\* writing to the pipe, the read of outputs broke mid-stream and metadata had
\* no usable reference.
C28_Witness ==
    /\ ReadComplete /\ "writer" \in rcalls.faults /\ "outputs" \in rcalls.faults
    /\ rcalls.ranges[3] = <<>>
    /\ \A k \in Fields : streams[k].pc \in {"none", "done"}


\* The value a read may show for a submitted field: the submitted bytes, or {}
\* for an omitted field or a failed fetch.
ShownFor(v) == IF v = "" THEN {"{}"} ELSE {"{}", v}

\* C30: a read for an identifier of a batch, served while the batch is written,
\* that got past the connection acquire ends not-found or found with each field
\* equal to the value submitted for that field of that record, or to {}.
C30_ConcurrentReadIsolated ==
    (ReadAnswered /\ uuidParse(rreq).ok /\ "acquire" \notin rcalls.faults) =>
        \/ rresp.status = 404
        \/ /\ rresp.status = 200
           /\ \E i \in 1..Len(woffs) :
                 /\ woffs[i].id = uuidParse(rreq).id
                 /\ \A k \in Fields :
                       Emitted(k) \in ShownFor(SubmittedField(wreq.runs[i], k))

\* The same with the reads whose range read broke mid-stream left out.
C30_IsolatedWhenNoBodyBreaks ==
    (/\ ReadAnswered /\ uuidParse(rreq).ok /\ "acquire" \notin rcalls.faults
     /\ rresp.status = 200 =>
           \A k \in Fields : Emitted(k) \in {"{}", Referenced(RowRef(rrow, k))}) =>
        \/ rresp.status = 404
        \/ /\ rresp.status = 200
           /\ \E i \in 1..Len(woffs) :
                 /\ woffs[i].id = uuidParse(rreq).id
                 /\ \A k \in Fields :
                       Emitted(k) \in ShownFor(SubmittedField(wreq.runs[i], k))


\* C23: a pooled batch buffer is held by at most one request at a time and is
\* not in the pool while that request waits for its goroutines or its upload is
\* pending, and every uploaded blob is the bytes its own request encoded.
C23_BufferOwnedUntilUploaded ==
    \A h \in Handlers :
        /\ preq[h].pc = "wait" =>
              /\ preq[h].buf \in 1..Len(bufs) /\ preq[h].buf \notin pool
              /\ \A g \in Handlers \ {h} :
                    preq[g].pc = "wait" => preq[g].buf # preq[h].buf
        /\ preq[h].s3pc = "put" => preq[h].pc = "wait"
        /\ preq[h].key \in DOMAIN s3 => s3[preq[h].key] = preq[h].encoded

\* Two requests are in flight at once, one of them with a buffer an earlier
\* request used for a longer batch, and that one's blob is uploaded.
C23_Witness ==
    \E h, g \in Handlers :
        /\ h # g /\ preq[h].pc = "wait" /\ preq[g].pc = "wait"
        /\ Len(bufs[preq[h].buf].arr) > preq[h].n
        /\ preq[h].key \in DOMAIN s3 /\ preq[g].s3pc = "put"

\* C24: a buffer the pool holds is empty: it was reset before it was released,
\* whether the handler returned after a validation failure, an I/O failure or a
\* success.
C24_PooledBuffersReset ==
    \A b \in pool : bufs[b].len = 0

=============================================================================
